---- MODULE Spec2Model ----
(***************************************************************************)
(* State-machine model of src/main.py (RemindMe backend).                  *)
(*                                                                         *)
(* Part I   : check_and_send_notifications (the daily reminder check and   *)
(*            its manual trigger), run by several threads at once.         *)
(* Part II  : process_messages / process_rsvp_messages (the 15-second      *)
(*            fan-out ticks).                                              *)
(* Part III : get_gemini_response (the AI conversation, one call per       *)
(*            webhook thread) with conversations and conversations_lock.   *)
(* Part IV  : handle_rsvp_reply (the RSVP reply webhook).                  *)
(*                                                                         *)
(* Every call to the data store, to the messaging gateway and every        *)
(* critical section under processing_lock is one atomic step; the code     *)
(* between two such calls only touches thread-local variables.             *)
(***************************************************************************)
EXTENDS Integers, Sequences, FiniteSets, Bags, TLC

\* ------------------------------------------------------------------ bounds
NumAggregates == 2      \* rows of the messages / rsvp table
NumContacts == 2        \* rows of the message_contact / rsvp_contact_status table
NumEvents == 2          \* rows of the events table
NumRuns == 2            \* executions of check_and_send_notifications
MaxDay == 2             \* the clock runs over the days 1..MaxDay
MaxNotifyDays == 1      \* days_to_notify ranges over 0..MaxNotifyDays
MaxCount == 4           \* the observation counters of Part II count up to MaxCount
NumThreads == 2         \* webhook threads inside get_gemini_response
NumUsers == 2           \* users talking to the assistant
MaxQueries == 2         \* AI queries received in one behaviour
NumPhones == 2          \* phone numbers of RSVP contacts
MaxPhrases == 2         \* phrases in one query text

Aggregates == 1..NumAggregates
Contacts == 1..NumContacts
Events == 1..NumEvents
Runs == 1..NumRuns
Slots == 1..(NumRuns + 1)   \* Runs and one more thread, used by SpecWide
EventDates == {MaxDay}

VARIABLES
    \* ---- the clock
    day,                 \* datetime.now().date()
    \* ---- data store: events, profiles, notifications_sent
    event_date,          \* events.event_date
    days_to_notify,      \* events.days_to_notify
    notified,            \* events.notified ("" stands for NULL / '')
    profile,             \* the profiles row of the user owning the events
    notifications_sent,  \* the notifications_sent table: a bag of rows
    \* ---- process memory
    processing_events,   \* the global set guarded by processing_lock
    \* ---- one execution of check_and_send_notifications per r \in Runs
    pc,                  \* position of the execution
    today,               \* its local `today`
    to_expire,           \* fetched events still to be marked 'No' (line 140)
    events_to_process,   \* its local list of candidates not yet handled
    raised,              \* an exception is propagating out of the try block
    notifications_failed, \* its local notifications_failed (line 147)
    \* ---- observation only (never read by the program)
    send_attempts,       \* gateway sends attempted, per event id
    yes_writes,          \* writes of notified = 'Yes', per event id
    \* ---- data store: messages + message_contact, or rsvp + rsvp_contact_status
    kind,                \* which of the two fan-out jobs is observed
    agg_status,          \* messages.status / rsvp.status ("" for NULL / '')
    parent,              \* message_contact.message_id / rsvp_contact_status.rsvp_id
    contact_status,      \* message_contact.status / rsvp_contact_status.invite_status
    \* ---- the execution of process_messages / process_rsvp_messages
    tpc,                 \* position of the tick
    messages,            \* fetched aggregates not yet handled (messages / rsvps)
    contacts,            \* fetched contacts of the current aggregate not yet handled
    all_sent,            \* its local all_sent
    \* ---- a second execution of the same function, started by the scheduler
    \* ---- of another process that has loaded the module (lines 566-569)
    tpc2,                \* position of that tick
    messages2,           \* its fetched aggregates not yet handled
    contacts2,           \* its fetched contacts not yet handled
    all_sent2,           \* its local all_sent
    \* ---- observation only
    attempts,            \* gateway sends attempted in the current tick, per contact
    tick_pending,        \* contacts that were pending, under a pending aggregate,
                         \* when the current tick started
    ticked,              \* some tick has run to its end
    ticks,               \* ticks started so far (up to MaxCount)
    sends,               \* fan-out gateway sends attempted so far (up to MaxCount)
    failures,            \* fan-out gateway sends that raised so far (up to MaxCount)
    \* ---- process memory of the AI conversation
    gemini_model,        \* the module-level model object, or None (lines 41-47)
    conversations,       \* the global dict: user id -> session
    conversations_lock,  \* the thread holding the lock, 0 when it is free
    \* ---- one call of get_gemini_response per t \in Threads
    qpc,                 \* position of the call
    user_id,             \* its argument user_id
    message_text,        \* its argument message_text
    reply,               \* the string it returned last
    \* ---- observation only
    clock,               \* datetime.now() readings made so far
    queries,             \* calls of get_gemini_response made so far
    \* ---- one call of analyze_event_query
    query_text,          \* its argument message_text, as a sequence of characters
    query_type,          \* the string it returned ("" before it returns)
    \* ---- data store: further columns of rsvp_contact_status
    contact_phone,       \* rsvp_contact_status.contact_phone
    rsvp_status,         \* rsvp_contact_status.status (the response; "" for NULL)
    \* ---- the execution of handle_rsvp_reply
    hpc,                 \* position of the handler
    from_number,         \* its argument from_number
    body,                \* its argument body
    status_value,        \* its local status_value
    contact_id,          \* its local contact_id
    resp                 \* the TwiML message of its last response

rvars == <<day, event_date, days_to_notify, notified, profile,
           notifications_sent, processing_events, pc, today, to_expire,
           events_to_process, raised, notifications_failed, send_attempts,
           yes_writes>>

tick2 == <<tpc2, messages2, contacts2, all_sent2>>

fvars == <<kind, agg_status, parent, contact_status, tpc, messages, contacts,
           all_sent, attempts, tick_pending, ticked, ticks, sends, failures,
           tick2>>

avars == <<query_text, query_type>>

cvars == <<gemini_model, conversations, conversations_lock, qpc, user_id,
           message_text, reply, clock, queries, avars>>

wvars == <<contact_phone, rsvp_status, hpc, from_number, body,
           status_value, contact_id, resp>>

vars == <<rvars, fvars, cvars, wvars>>

\* ------------------------------------------------------- pure helpers

\* line 135: notification_date = event_date - timedelta(days=days_to_notify)
notification_date(e) == event_date[e] - days_to_notify[e]

\* line 128: .or_('notified.is.null,notified.eq.')
IsPending(v) == v = ""

\* line 137: today == notification_date
IsDue(t, e) == t = notification_date(e)

\* Faulty variant of IsExpired: the comparison the wrong way round.
IsExpiredMut(t, e) == t < notification_date(e)

\* line 140: today > notification_date
IsExpired(t, e) == t > notification_date(e)

\* Faulty variant of AlreadyNotified: the double check left out.
AlreadyNotifiedMut(v) == FALSE

\* line 159: notified not in [None, '', 'No']  (the run skips the event)
AlreadyNotified(v) == v \notin {"", "No"}

\* Faulty variant of HasPhone: every profile is taken to have a number.
HasPhoneMut(p) == TRUE

\* lines 171, 176: the profile row has a phone_number (for a missing row
\* single() raises, which is ProfileRaises below)
HasPhone(p) == p = "phone"

\* The ids of S in ascending order (the order the store returns rows in).
RECURSIVE SortedSeq(_)
SortedSeq(S) ==
    IF S = {} THEN <<>>
    ELSE LET m == CHOOSE x \in S : \A y \in S : x <= y
         IN  <<m>> \o SortedSeq(S \ {m})

\* Where a run goes once the first loop (lines 131-142) has nothing left to
\* write: line 143 returns when there is no candidate.
AfterScan(exp, cand) ==
    IF exp # <<>> THEN "scan"
    ELSE IF cand = <<>> THEN "done" ELSE "acquire"

\* Where a run goes after one iteration of the second loop (line 148).
AfterEvent(cand) == IF cand = <<>> THEN "done" ELSE "acquire"

\* The event a run is handling in the second loop (event_id, line 149).
event_id(r) == Head(events_to_process[r])

\* The run holds the guard for its current event (lines 157-212).
InGuarded(r) == pc[r] \in {"reread", "mark", "profile", "send", "release"}

\* Faulty variant of TryAcquire: the membership test left out.
TryAcquireMut(set, id) == TRUE

\* lines 150-155: the membership test made under processing_lock
TryAcquire(set, id) == id \notin set

\* Faulty variant of Discard: the id is left in the set.
DiscardMut(set, id) == set

\* lines 210-211: processing_events.discard(event_id)
Discard(set, id) == set \ {id}

\* Faulty variant of AfterMark: the send goes ahead without the confirmation.
AfterMarkMut(confirmed) == "profile"

\* lines 163-168: if update_response.data: ... else: ... continue
AfterMark(confirmed) == IF confirmed THEN "profile" ELSE "release"

\* Faulty variant of TopLevelHandler: the exception leaves the function.
TopLevelHandlerMut(resume) == "crashed"

\* lines 214-215 / 267-268 / 325-326: except Exception as e: logger.error(...)
\* The function returns normally; `resume` is where its caller finds it.
TopLevelHandler(resume) == resume

\* A counter that counts up to MaxCount.
Count(n) == IF n < MaxCount THEN n + 1 ELSE MaxCount

\* lines 58-79: the row log_notification_to_db inserts
NotificationRecord(e, status) ==
    [event_id |-> e, notification_type |-> "event_reminder",
     delivery_status |-> status]

\* ------------------------------------------------------------ initial state
InitReminder ==
    /\ day = 1
    /\ event_date \in [Events -> EventDates]
    /\ days_to_notify \in [Events -> 0..MaxNotifyDays]
    /\ notified = [e \in Events |-> ""]
    /\ profile \in {"nophone", "phone"}
    /\ notifications_sent = EmptyBag
    /\ processing_events = {}
    /\ pc = [r \in Slots |-> "idle"]
    /\ today = [r \in Slots |-> 0]
    /\ to_expire = [r \in Slots |-> <<>>]
    /\ events_to_process = [r \in Slots |-> <<>>]
    /\ raised = [r \in Slots |-> FALSE]
    /\ notifications_failed = [r \in Slots |-> 0]
    /\ send_attempts = [e \in Events |-> 0]
    /\ yes_writes = [e \in Events |-> 0]

\* ------------------------------------------------------------------ clock
\* Midnight passes.
NextDay ==
    /\ day < MaxDay
    /\ day' = day + 1
    /\ UNCHANGED <<event_date, days_to_notify, notified, profile,
                   notifications_sent, processing_events, pc, today,
                   to_expire, events_to_process, raised, send_attempts,
                   yes_writes,
                   notifications_failed,
                   fvars, cvars, wvars>>

\* -------------------------------------- check_and_send_notifications
\* lines 120-124 (timer, line 558, or manual trigger, line 575): the run
\* reads the date.  Executions are interchangeable, so they are numbered in
\* the order they start.
Start(r) ==
    /\ pc[r] = "idle"
    /\ \A q \in Slots : q < r => pc[q] # "idle"
    /\ today' = [today EXCEPT ![r] = day]
    /\ pc' = [pc EXCEPT ![r] = "fetch"]
    /\ UNCHANGED <<day, event_date, days_to_notify, notified, profile,
                   notifications_sent, processing_events, to_expire,
                   events_to_process, raised, send_attempts, yes_writes,
                   notifications_failed,
                   fvars, cvars, wvars>>

\* lines 126-138: the query for pending events.  The comparisons of the
\* first loop only use the fetched rows and `today`, so the candidates
\* (line 138) and the rows still to be marked 'No' (line 141) are fixed
\* by the fetch; the 'No' writes themselves are the Expire steps.
Fetch(r) ==
    /\ pc[r] = "fetch"
    /\ LET response == SortedSeq({e \in Events : IsPending(notified[e])})
           due(e) == IsDue(today[r], e)
           old(e) == ~IsDue(today[r], e) /\ IsExpired(today[r], e)
           cand == SelectSeq(response, due)
           exp == SelectSeq(response, old)
       IN  /\ events_to_process' = [events_to_process EXCEPT ![r] = cand]
           /\ to_expire' = [to_expire EXCEPT ![r] = exp]
           /\ pc' = [pc EXCEPT ![r] = AfterScan(exp, cand)]
    /\ UNCHANGED <<day, event_date, days_to_notify, notified, profile,
                   notifications_sent, processing_events, today, raised,
                   send_attempts, yes_writes,
                   notifications_failed,
                   fvars, cvars, wvars>>

\* lines 140-142: update({'notified': 'No'}).eq('id', event['id']), made
\* without the guard and without re-reading the row.
Expire(r) ==
    /\ pc[r] = "scan"
    /\ LET e == Head(to_expire[r])
           rest == Tail(to_expire[r])
       IN  /\ notified' = [notified EXCEPT ![e] = "No"]
           /\ to_expire' = [to_expire EXCEPT ![r] = rest]
           /\ pc' = [pc EXCEPT ![r] = AfterScan(rest, events_to_process[r])]
    /\ UNCHANGED <<day, event_date, days_to_notify, profile,
                   notifications_sent, processing_events, today,
                   events_to_process, raised, send_attempts, yes_writes,
                   notifications_failed,
                   fvars, cvars, wvars>>

\* lines 149-156: with processing_lock: skip the event if its id is in
\* processing_events (continue, before the try block), else add the id.
Acquire(r) ==
    /\ pc[r] = "acquire"
    /\ IF TryAcquire(processing_events, event_id(r))
       THEN /\ processing_events' = processing_events \cup {event_id(r)}
            /\ pc' = [pc EXCEPT ![r] = "reread"]
            /\ UNCHANGED events_to_process
       ELSE /\ events_to_process' =
                   [events_to_process EXCEPT ![r] = Tail(@)]
            /\ pc' = [pc EXCEPT ![r] = AfterEvent(Tail(events_to_process[r]))]
            /\ UNCHANGED processing_events
    /\ UNCHANGED <<day, event_date, days_to_notify, notified, profile,
                   notifications_sent, today, to_expire, raised,
                   send_attempts, yes_writes, notifications_failed,
                   fvars, cvars, wvars>>

\* lines 158-161: the re-read of the row's notified field.
Reread(r) ==
    /\ pc[r] = "reread"
    /\ pc' = [pc EXCEPT ![r] =
                IF AlreadyNotified(notified[event_id(r)])
                THEN "release" ELSE "mark"]
    /\ UNCHANGED <<day, event_date, days_to_notify, notified, profile,
                   notifications_sent, processing_events, today, to_expire,
                   events_to_process, raised, send_attempts, yes_writes,
                   notifications_failed,
                   fvars, cvars, wvars>>

\* lines 162-164: update({'notified': 'Yes'}), confirmed by the store.
Mark(r) ==
    /\ pc[r] = "mark"
    /\ notified' = [notified EXCEPT ![event_id(r)] = "Yes"]
    /\ yes_writes' = [yes_writes EXCEPT ![event_id(r)] = @ + 1]
    /\ pc' = [pc EXCEPT ![r] = AfterMark(TRUE)]
    /\ UNCHANGED <<day, event_date, days_to_notify, profile,
                   notifications_sent, processing_events, today, to_expire,
                   events_to_process, raised, send_attempts,
                   notifications_failed,
                   fvars, cvars, wvars>>

\* lines 169-179: the profile lookup; a missing row (single() raises, line
\* 172) and a row without phone_number (line 176) both end the iteration.
Profile(r) ==
    /\ pc[r] = "profile"
    /\ pc' = [pc EXCEPT ![r] =
                IF HasPhone(profile) THEN "send" ELSE "release"]
    /\ notifications_failed' =
           [notifications_failed EXCEPT ![r] =
               IF HasPhone(profile) THEN @ ELSE @ + 1]
    /\ UNCHANGED <<day, event_date, days_to_notify, notified, profile,
                   notifications_sent, processing_events, today, to_expire,
                   events_to_process, raised, send_attempts, yes_writes,
                   fvars, cvars, wvars>>

\* lines 197-208 with send_whatsapp_notification, lines 82-117: one gateway
\* send, which succeeds or raises, then one notifications_sent row.
Send(r) ==
    /\ pc[r] = "send"
    /\ \E ok \in BOOLEAN :
          /\ notifications_sent' =
                 notifications_sent (+)
                 SetToBag({NotificationRecord(event_id(r),
                                              IF ok THEN "sent" ELSE "failed")})
          /\ notifications_failed' =
                 [notifications_failed EXCEPT ![r] = IF ok THEN @ ELSE @ + 1]
    /\ send_attempts' = [send_attempts EXCEPT ![event_id(r)] = @ + 1]
    /\ pc' = [pc EXCEPT ![r] = "release"]
    /\ UNCHANGED <<day, event_date, days_to_notify, notified, profile,
                   processing_events, today, to_expire, events_to_process,
                   raised, yes_writes,
                   fvars, cvars, wvars>>

\* lines 209-212: finally: with processing_lock: discard.  An exception
\* raised inside the try block then leaves the loop (line 214) and the
\* function, whose locals are gone.
Release(r) ==
    /\ pc[r] = "release"
    /\ processing_events' = Discard(processing_events, event_id(r))
    /\ events_to_process' =
           [events_to_process EXCEPT ![r] = IF raised[r] THEN <<>> ELSE Tail(@)]
    /\ pc' = [pc EXCEPT ![r] =
                IF raised[r] THEN TopLevelHandler("done")
                ELSE AfterEvent(Tail(events_to_process[r]))]
    /\ UNCHANGED <<day, event_date, days_to_notify, notified, profile,
                   notifications_sent, today, to_expire, raised,
                   send_attempts, yes_writes,
                   notifications_failed,
                   fvars, cvars, wvars>>

\* One step of an execution that has started.
RunStep ==
    \/ \E r \in Slots : Fetch(r)
    \/ \E r \in Slots : Expire(r)
    \/ \E r \in Slots : Acquire(r)
    \/ \E r \in Slots : Reread(r)
    \/ \E r \in Slots : Mark(r)
    \/ \E r \in Slots : Profile(r)
    \/ \E r \in Slots : Send(r)
    \/ \E r \in Slots : Release(r)

NextReminder ==
    \/ NextDay
    \/ \E r \in Runs : Start(r)
    \/ RunStep

\* ------------------------------------------------ data-store failures
\* line 126 raises: the run ends in the handler of line 214.
FetchRaises(r) ==
    /\ pc[r] = "fetch"
    /\ pc' = [pc EXCEPT ![r] = TopLevelHandler("done")]
    /\ UNCHANGED <<day, event_date, days_to_notify, notified, profile,
                   notifications_sent, processing_events, today, to_expire,
                   events_to_process, raised, send_attempts, yes_writes,
                   notifications_failed,
                   fvars, cvars, wvars>>

\* line 141 raises (outside the inner try): the run ends at line 214, its
\* locals are gone.
ExpireRaises(r) ==
    /\ pc[r] = "scan"
    /\ pc' = [pc EXCEPT ![r] = TopLevelHandler("done")]
    /\ to_expire' = [to_expire EXCEPT ![r] = <<>>]
    /\ events_to_process' = [events_to_process EXCEPT ![r] = <<>>]
    /\ UNCHANGED <<day, event_date, days_to_notify, notified, profile,
                   notifications_sent, processing_events, today, raised,
                   send_attempts, yes_writes, notifications_failed,
                   fvars, cvars, wvars>>

\* line 158 raises inside the try block: finally runs, then line 214.
RereadRaises(r) ==
    /\ pc[r] = "reread"
    /\ raised' = [raised EXCEPT ![r] = TRUE]
    /\ pc' = [pc EXCEPT ![r] = "release"]
    /\ UNCHANGED <<day, event_date, days_to_notify, notified, profile,
                   notifications_sent, processing_events, today, to_expire,
                   events_to_process, send_attempts, yes_writes,
                   notifications_failed,
                   fvars, cvars, wvars>>

\* line 162 raises: the store may or may not have applied the write.
MarkRaises(r) ==
    /\ pc[r] = "mark"
    /\ \E applied \in BOOLEAN :
          IF applied
          THEN /\ notified' = [notified EXCEPT ![event_id(r)] = "Yes"]
               /\ yes_writes' = [yes_writes EXCEPT ![event_id(r)] = @ + 1]
          ELSE UNCHANGED <<notified, yes_writes>>
    /\ raised' = [raised EXCEPT ![r] = TRUE]
    /\ pc' = [pc EXCEPT ![r] = "release"]
    /\ UNCHANGED <<day, event_date, days_to_notify, profile,
                   notifications_sent, processing_events, today, to_expire,
                   events_to_process, send_attempts,
                   notifications_failed,
                   fvars, cvars, wvars>>

\* lines 165-168: the update returns no row (update_response.data is empty):
\* nothing was written, the iteration ends.
MarkUnconfirmed(r) ==
    /\ pc[r] = "mark"
    /\ pc' = [pc EXCEPT ![r] = AfterMark(FALSE)]
    /\ notifications_failed' =
           [notifications_failed EXCEPT ![r] = @ + 1]
    /\ UNCHANGED <<day, event_date, days_to_notify, notified, profile,
                   notifications_sent, processing_events, today, to_expire,
                   events_to_process, raised, send_attempts, yes_writes,
                   fvars, cvars, wvars>>

\* lines 172-175: the profile query raises; caught, the iteration ends.
ProfileRaises(r) ==
    /\ pc[r] = "profile"
    /\ pc' = [pc EXCEPT ![r] = "release"]
    /\ notifications_failed' =
           [notifications_failed EXCEPT ![r] = @ + 1]
    /\ UNCHANGED <<day, event_date, days_to_notify, notified, profile,
                   notifications_sent, processing_events, today, to_expire,
                   events_to_process, raised, send_attempts, yes_writes,
                   fvars, cvars, wvars>>

\* lines 70-79: the insert into notifications_sent fails; the error is
\* swallowed by log_notification_to_db and no row is written.
SendUnlogged(r) ==
    /\ pc[r] = "send"
    /\ \E ok \in BOOLEAN :
          notifications_failed' =
              [notifications_failed EXCEPT ![r] = IF ok THEN @ ELSE @ + 1]
    /\ send_attempts' = [send_attempts EXCEPT ![event_id(r)] = @ + 1]
    /\ pc' = [pc EXCEPT ![r] = "release"]
    /\ UNCHANGED <<day, event_date, days_to_notify, notified, profile,
                   notifications_sent, processing_events, today, to_expire,
                   events_to_process, raised, yes_writes,
                   fvars, cvars, wvars>>

StoreFailure ==
    \/ \E r \in Slots : FetchRaises(r)
    \/ \E r \in Slots : ExpireRaises(r)
    \/ \E r \in Slots : RereadRaises(r)
    \/ \E r \in Slots : MarkRaises(r)
    \/ \E r \in Slots : MarkUnconfirmed(r)
    \/ \E r \in Slots : ProfileRaises(r)
    \/ \E r \in Slots : SendUnlogged(r)

\* =================================================================
\* process_messages (lines 271-326) and process_rsvp_messages (lines
\* 218-268).  The two functions differ only in the tables and the message
\* text; `kind` says which one a behaviour is about.  Each is an APScheduler
\* interval job (lines 567-568).
\* =================================================================

\* Faulty variant of IsUnsent: the status filter left out of the queries.
IsUnsentMut(v) == TRUE

\* lines 274, 287 / 220, 233: .or_('status.is.null,status.eq.""')
IsUnsent(v) == v = ""

\* Faulty variant of RevertStatus: a terminal marker instead of ''.
RevertStatusMut == "failed"

\* lines 317 / 260: update({'status': ''})
RevertStatus == ""

\* Faulty variant of AfterContact: the loop over contacts is left after the
\* first one.
AfterContactMut(rest) == "rollup"

\* lines 294 / 240: the next contact of the loop, or the end of the loop.
AfterContact(rest) == IF rest = <<>> THEN "rollup" ELSE "processing"

\* Faulty variant of AfterAggregate: the tick ends after its first aggregate.
AfterAggregateMut(rest) == "idle"

\* lines 279 / 225: the next aggregate of the loop, or the end of the tick.
AfterAggregate(rest) == IF rest = <<>> THEN "idle" ELSE "contacts"

\* Faulty variant of RollUp: the aggregate is marked whatever all_sent is.
RollUpMut(flag) == TRUE

\* lines 320 / 262: if all_sent
RollUp(flag) == flag

\* The contact rows of aggregate a.
ContactsOf(a) == {c \in Contacts : parent[c] = a}

\* lines 284-288 / 230-234: the unsent contact rows of aggregate a.
UnsentContacts(a) == {c \in ContactsOf(a) : IsUnsent(contact_status[c])}

InitFanout ==
    /\ kind \in {"messages", "rsvp"}
    /\ agg_status = [a \in Aggregates |-> ""]
    /\ parent \in [Contacts -> Aggregates]
    /\ contact_status = [c \in Contacts |-> ""]
    /\ tpc = "idle"
    /\ messages = <<>>
    /\ contacts = <<>>
    /\ all_sent = TRUE
    /\ attempts = [c \in Contacts |-> 0]
    /\ tick_pending = {}
    /\ ticked = FALSE
    /\ ticks = 0
    /\ sends = 0
    /\ failures = 0
    /\ tpc2 = "idle"
    /\ messages2 = <<>>
    /\ contacts2 = <<>>
    /\ all_sent2 = TRUE

\* lines 272-278 / 219-224: the tick starts and fetches the pending
\* aggregates; with none it returns.
TickStart ==
    /\ tpc = "idle"
    /\ LET response == SortedSeq({a \in Aggregates : IsUnsent(agg_status[a])})
       IN  /\ messages' = response
           /\ tpc' = AfterAggregate(response)
    /\ attempts' = [c \in Contacts |-> 0]
    /\ tick_pending' = {c \in Contacts : /\ IsUnsent(contact_status[c])
                                          /\ IsUnsent(agg_status[parent[c]])}
    /\ ticked' = (ticked \/ tpc' = "idle")
    /\ ticks' = Count(ticks)
    /\ UNCHANGED <<kind, agg_status, parent, contact_status, contacts,
                   all_sent, sends, failures, tick2,
                   rvars, cvars, wvars>>

\* lines 284-293 / 230-239: fetch the unsent contacts of the aggregate;
\* with none, continue with the next aggregate.
FetchContacts ==
    /\ tpc = "contacts"
    /\ LET rows == SortedSeq(UnsentContacts(Head(messages)))
       IN  IF rows = <<>>
           THEN /\ messages' = Tail(messages)
                /\ tpc' = AfterAggregate(Tail(messages))
                /\ UNCHANGED <<contacts, all_sent>>
           ELSE /\ contacts' = rows
                /\ all_sent' = TRUE
                /\ tpc' = "processing"
                /\ UNCHANGED messages
    /\ ticked' = (ticked \/ tpc' = "idle")
    /\ UNCHANGED <<kind, agg_status, parent, contact_status, attempts,
                   tick_pending, ticks, sends, failures, tick2,
                   rvars, cvars, wvars>>

\* lines 300-302 / 245-247: update({'status': 'processing'})
MarkProcessing ==
    /\ tpc = "processing"
    /\ contact_status' = [contact_status EXCEPT ![Head(contacts)] = "processing"]
    /\ tpc' = "send"
    /\ UNCHANGED <<kind, agg_status, parent, messages, contacts, all_sent,
                   attempts, tick_pending, ticked, ticks, sends, failures,
                   tick2, rvars, cvars, wvars>>

\* lines 304-309 / 249-254: twilio_client.messages.create returns.
SendOk(c) ==
    /\ tpc = "send"
    /\ Head(contacts) = c
    /\ attempts' = [attempts EXCEPT ![c] = @ + 1]
    /\ sends' = Count(sends)
    /\ tpc' = "mark_sent"
    /\ UNCHANGED <<kind, agg_status, parent, contact_status, messages,
                   contacts, all_sent, tick_pending, ticked, ticks, failures,
                   tick2, rvars, cvars, wvars>>

\* lines 304, 313 / 249, 257: twilio_client.messages.create raises.
SendFail(c) ==
    /\ tpc = "send"
    /\ Head(contacts) = c
    /\ attempts' = [attempts EXCEPT ![c] = @ + 1]
    /\ sends' = Count(sends)
    /\ failures' = Count(failures)
    /\ tpc' = "revert"
    /\ UNCHANGED <<kind, agg_status, parent, contact_status, messages,
                   contacts, all_sent, tick_pending, ticked, ticks,
                   tick2, rvars, cvars, wvars>>

\* lines 311-312 / 255-256: update({'status': 'sent'})
MarkSent ==
    /\ tpc = "mark_sent"
    /\ contact_status' = [contact_status EXCEPT ![Head(contacts)] = "sent"]
    /\ contacts' = Tail(contacts)
    /\ tpc' = AfterContact(Tail(contacts))
    /\ UNCHANGED <<kind, agg_status, parent, messages, all_sent, attempts,
                   tick_pending, ticked, ticks, sends, failures,
                   tick2, rvars, cvars, wvars>>

\* lines 313-318 / 257-261: the handler reverts the row and clears all_sent.
Revert ==
    /\ tpc = "revert"
    /\ contact_status' = [contact_status EXCEPT ![Head(contacts)] = RevertStatus]
    /\ all_sent' = FALSE
    /\ contacts' = Tail(contacts)
    /\ tpc' = AfterContact(Tail(contacts))
    /\ UNCHANGED <<kind, agg_status, parent, messages, attempts,
                   tick_pending, ticked, ticks, sends, failures,
                   tick2, rvars, cvars, wvars>>

\* lines 320-324 / 262-266: the aggregate is marked 'sent' if all_sent.
FinishAggregate ==
    /\ tpc = "rollup"
    /\ agg_status' = IF RollUp(all_sent)
                     THEN [agg_status EXCEPT ![Head(messages)] = "sent"]
                     ELSE agg_status
    /\ messages' = Tail(messages)
    /\ contacts' = <<>>
    /\ tpc' = AfterAggregate(Tail(messages))
    /\ ticked' = (ticked \/ tpc' = "idle")
    /\ UNCHANGED <<kind, parent, contact_status, all_sent, attempts,
                   tick_pending, ticks, sends, failures, tick2,
                   rvars, cvars, wvars>>

\* One step of the job's tick.
TickStep ==
    \/ TickStart
    \/ FetchContacts
    \/ MarkProcessing
    \/ MarkSent
    \/ Revert
    \/ FinishAggregate

NextFanout ==
    \/ TickStep
    \/ \E c \in Contacts : SendOk(c)
    \/ \E c \in Contacts : SendFail(c)

\* ------------------------------------- data-store failures in a tick
\* A store call that raises may or may not have applied its write.

\* lines 274 / 220 raise: the tick ends in the handler of lines 325 / 267.
TickFetchRaises ==
    /\ tpc = "idle"
    /\ tpc' = TopLevelHandler("idle")
    /\ attempts' = [c \in Contacts |-> 0]
    /\ tick_pending' = {c \in Contacts : /\ IsUnsent(contact_status[c])
                                          /\ IsUnsent(agg_status[parent[c]])}
    /\ ticked' = TRUE
    /\ ticks' = Count(ticks)
    /\ UNCHANGED <<kind, agg_status, parent, contact_status, messages,
                   contacts, all_sent, sends, failures, tick2,
                   rvars, cvars, wvars>>

\* lines 284-288 / 230-234 raise, outside the inner try: the tick ends in
\* the handler of lines 325 / 267, the aggregates not yet handled with it.
FetchContactsRaises ==
    /\ tpc = "contacts"
    /\ messages' = <<>>
    /\ tpc' = TopLevelHandler("idle")
    /\ ticked' = TRUE
    /\ UNCHANGED <<kind, agg_status, parent, contact_status, contacts,
                   all_sent, attempts, tick_pending, ticks, sends, failures,
                   tick2, rvars, cvars, wvars>>

\* lines 300-302 / 245-247 raise inside the inner try: the handler of lines
\* 313 / 257 runs.
MarkProcessingRaises ==
    /\ tpc = "processing"
    /\ \E applied \in BOOLEAN :
          contact_status' =
              IF applied
              THEN [contact_status EXCEPT ![Head(contacts)] = "processing"]
              ELSE contact_status
    /\ tpc' = "revert"
    /\ UNCHANGED <<kind, agg_status, parent, messages, contacts, all_sent,
                   attempts, tick_pending, ticked, ticks, sends, failures,
                   tick2, rvars, cvars, wvars>>

\* lines 311-312 / 255-256 raise after the send has succeeded, still inside
\* the inner try: the handler of lines 313 / 257 runs.
MarkSentRaises ==
    /\ tpc = "mark_sent"
    /\ \E applied \in BOOLEAN :
          contact_status' =
              IF applied
              THEN [contact_status EXCEPT ![Head(contacts)] = "sent"]
              ELSE contact_status
    /\ tpc' = "revert"
    /\ UNCHANGED <<kind, agg_status, parent, messages, contacts, all_sent,
                   attempts, tick_pending, ticked, ticks, sends, failures,
                   tick2, rvars, cvars, wvars>>

\* lines 316-317 / 259-260 raise inside the handler: the exception leaves
\* both loops and the tick ends in the handler of lines 325 / 267.
RevertRaises ==
    /\ tpc = "revert"
    /\ \E applied \in BOOLEAN :
          contact_status' =
              IF applied
              THEN [contact_status EXCEPT ![Head(contacts)] = RevertStatus]
              ELSE contact_status
    /\ messages' = <<>>
    /\ contacts' = <<>>
    /\ tpc' = TopLevelHandler("idle")
    /\ ticked' = TRUE
    /\ UNCHANGED <<kind, agg_status, parent, all_sent, attempts,
                   tick_pending, ticks, sends, failures, tick2,
                   rvars, cvars, wvars>>

\* lines 321 / 263 raise: the tick ends in the handler of lines 325 / 267.
RollUpRaises ==
    /\ tpc = "rollup"
    /\ RollUp(all_sent)
    /\ \E applied \in BOOLEAN :
          agg_status' =
              IF applied
              THEN [agg_status EXCEPT ![Head(messages)] = "sent"]
              ELSE agg_status
    /\ messages' = <<>>
    /\ contacts' = <<>>
    /\ tpc' = TopLevelHandler("idle")
    /\ ticked' = TRUE
    /\ UNCHANGED <<kind, parent, contact_status, all_sent, attempts,
                   tick_pending, ticks, sends, failures, tick2,
                   rvars, cvars, wvars>>

FanoutStoreFailure ==
    \/ TickFetchRaises
    \/ FetchContactsRaises
    \/ MarkProcessingRaises
    \/ MarkSentRaises
    \/ RevertRaises
    \/ RollUpRaises

\* ----------------------------- an overlapping execution of the same tick
\* scheduler.start() (line 569) is module-level code: each process that
\* loads the module (the parent of the Werkzeug reloader that line 655
\* tests for, a further WSGI worker) runs its own BackgroundScheduler with
\* the same two jobs.  max_instances bounds the executions of a job within
\* one scheduler only, so an execution of the same function in another
\* process overlaps with the tick above; the two share the tables and
\* nothing else.  Its steps are the steps above on its own locals.

\* The state of the first execution and what is observed about it.
tick1 == <<tpc, messages, contacts, all_sent, attempts, tick_pending, ticked>>

\* lines 272-278 / 219-224
TickStart2 ==
    /\ tpc2 = "idle"
    /\ LET response == SortedSeq({a \in Aggregates : IsUnsent(agg_status[a])})
       IN  /\ messages2' = response
           /\ tpc2' = AfterAggregate(response)
    /\ ticks' = Count(ticks)
    /\ UNCHANGED <<kind, agg_status, parent, contact_status, contacts2,
                   all_sent2, sends, failures, tick1, rvars, cvars, wvars>>

\* lines 284-293 / 230-239
FetchContacts2 ==
    /\ tpc2 = "contacts"
    /\ LET rows == SortedSeq(UnsentContacts(Head(messages2)))
       IN  IF rows = <<>>
           THEN /\ messages2' = Tail(messages2)
                /\ tpc2' = AfterAggregate(Tail(messages2))
                /\ UNCHANGED <<contacts2, all_sent2>>
           ELSE /\ contacts2' = rows
                /\ all_sent2' = TRUE
                /\ tpc2' = "processing"
                /\ UNCHANGED messages2
    /\ UNCHANGED <<kind, agg_status, parent, contact_status, ticks, sends,
                   failures, tick1, rvars, cvars, wvars>>

\* lines 300-302 / 245-247: update({'status': 'processing'}).eq('id', ...),
\* whatever the row holds by now.
MarkProcessing2 ==
    /\ tpc2 = "processing"
    /\ contact_status' =
           [contact_status EXCEPT ![Head(contacts2)] = "processing"]
    /\ tpc2' = "send"
    /\ UNCHANGED <<kind, agg_status, parent, messages2, contacts2, all_sent2,
                   ticks, sends, failures, tick1, rvars, cvars, wvars>>

\* lines 304-309 / 249-254: twilio_client.messages.create returns.
SendOk2(c) ==
    /\ tpc2 = "send"
    /\ Head(contacts2) = c
    /\ sends' = Count(sends)
    /\ tpc2' = "mark_sent"
    /\ UNCHANGED <<kind, agg_status, parent, contact_status, messages2,
                   contacts2, all_sent2, ticks, failures, tick1,
                   rvars, cvars, wvars>>

\* lines 304, 313 / 249, 257: twilio_client.messages.create raises.
SendFail2(c) ==
    /\ tpc2 = "send"
    /\ Head(contacts2) = c
    /\ sends' = Count(sends)
    /\ failures' = Count(failures)
    /\ tpc2' = "revert"
    /\ UNCHANGED <<kind, agg_status, parent, contact_status, messages2,
                   contacts2, all_sent2, ticks, tick1, rvars, cvars, wvars>>

\* lines 311-312 / 255-256: update({'status': 'sent'})
MarkSent2 ==
    /\ tpc2 = "mark_sent"
    /\ contact_status' = [contact_status EXCEPT ![Head(contacts2)] = "sent"]
    /\ contacts2' = Tail(contacts2)
    /\ tpc2' = AfterContact(Tail(contacts2))
    /\ UNCHANGED <<kind, agg_status, parent, messages2, all_sent2, ticks,
                   sends, failures, tick1, rvars, cvars, wvars>>

\* lines 313-318 / 257-261: update({'status': ''}), all_sent = False
Revert2 ==
    /\ tpc2 = "revert"
    /\ contact_status' =
           [contact_status EXCEPT ![Head(contacts2)] = RevertStatus]
    /\ all_sent2' = FALSE
    /\ contacts2' = Tail(contacts2)
    /\ tpc2' = AfterContact(Tail(contacts2))
    /\ UNCHANGED <<kind, agg_status, parent, messages2, ticks, sends,
                   failures, tick1, rvars, cvars, wvars>>

\* lines 320-324 / 262-266
FinishAggregate2 ==
    /\ tpc2 = "rollup"
    /\ agg_status' = IF RollUp(all_sent2)
                     THEN [agg_status EXCEPT ![Head(messages2)] = "sent"]
                     ELSE agg_status
    /\ messages2' = Tail(messages2)
    /\ contacts2' = <<>>
    /\ tpc2' = AfterAggregate(Tail(messages2))
    /\ UNCHANGED <<kind, parent, contact_status, all_sent2, ticks, sends,
                   failures, tick1, rvars, cvars, wvars>>

NextFanout2 ==
    \/ TickStart2
    \/ FetchContacts2
    \/ MarkProcessing2
    \/ MarkSent2
    \/ Revert2
    \/ FinishAggregate2
    \/ \E c \in Contacts : SendOk2(c)
    \/ \E c \in Contacts : SendFail2(c)

\* =================================================================
\* get_gemini_response (lines 381-473), called by handle_ai_conversation
\* (line 542) on the thread of each webhook request.
\* =================================================================
Threads == 1..NumThreads
Users == 1..NumUsers

\* The texts users send and the texts the model answers.
Texts == {"what is on this month"}
Answers == {"you have one event"}

\* line 383
Unavailable ==
    "I'm sorry, the AI service is currently unavailable. Please try again later."

\* line 473
Fallback ==
    "I'm sorry, I couldn't process your request at the moment. Please try again."

\* conversations[u]['history'], empty for a user without a session.
History(u) ==
    IF u \in DOMAIN conversations THEN conversations[u].history ELSE <<>>

\* lines 386-392: the session is created if absent, last_message_time is set.
Touch(conv, u, current_time) ==
    [v \in DOMAIN conv \cup {u} |->
        IF v = u
        THEN [last_message_time |-> current_time,
              history |-> IF u \in DOMAIN conv THEN conv[u].history ELSE <<>>]
        ELSE conv[v]]

\* lines 467-468: the two appends made after send_message has returned.
AppendTurn(h, text, answer) ==
    h \o <<[role |-> "user", parts |-> <<text>>],
           [role |-> "model", parts |-> <<answer>>]>>

\* Faulty variant of HistoryOnError: the user's turn is appended before the
\* call is made.
HistoryOnErrorMut(h, text) == Append(h, [role |-> "user", parts |-> <<text>>])

\* lines 465-466, 471-473: send_message raises before line 467 is reached
\* and the handler touches nothing.
HistoryOnError(h, text) == h

\* No call of analyze_event_query is observed.
IntentAtRest ==
    /\ query_text = <<>>
    /\ query_type = ""

InitChat ==
    /\ gemini_model \in {"none", "gemini-2.0-flash"}
    /\ conversations = <<>>
    /\ conversations_lock = 0
    /\ qpc = [t \in Threads |-> "idle"]
    /\ user_id = [t \in Threads |-> 1]
    /\ message_text = [t \in Threads |-> "what is on this month"]
    /\ reply = [t \in Threads |-> ""]
    /\ clock = 0
    /\ queries = 0
    /\ IntentAtRest

\* lines 381-383: the call starts; without a model it returns at once.
QueryStart(t) ==
    /\ qpc[t] = "idle"
    /\ queries < MaxQueries
    /\ queries' = queries + 1
    /\ \E u \in Users : user_id' = [user_id EXCEPT ![t] = u]
    /\ \E text \in Texts : message_text' = [message_text EXCEPT ![t] = text]
    /\ IF gemini_model = "none"
       THEN /\ reply' = [reply EXCEPT ![t] = Unavailable]
            /\ UNCHANGED qpc
       ELSE /\ reply' = [reply EXCEPT ![t] = ""]
            /\ qpc' = [qpc EXCEPT ![t] = "lock"]
    /\ UNCHANGED <<gemini_model, conversations, conversations_lock, clock,
                   avars, rvars, fvars, wvars>>

\* lines 384-392: with conversations_lock: the session lookup and update.
\* The with block goes on to line 473, so the lock stays held.
LockAcquire(t) ==
    /\ qpc[t] = "lock"
    /\ conversations_lock = 0
    /\ conversations_lock' = t
    /\ clock' = clock + 1
    /\ conversations' = Touch(conversations, user_id[t], clock')
    /\ qpc' = [qpc EXCEPT ![t] = "events"]
    /\ UNCHANGED <<gemini_model, user_id, message_text, reply, queries,
                   avars, rvars, fvars, wvars>>

\* lines 394-464: the data-store reads of get_user_events (its errors are
\* swallowed, lines 355-357) and the building of the prompt.
GetEvents(t) ==
    /\ qpc[t] = "events"
    /\ qpc' = [qpc EXCEPT ![t] = "ai"]
    /\ UNCHANGED <<gemini_model, conversations, conversations_lock, user_id,
                   message_text, reply, clock, queries,
                   avars, rvars, fvars, wvars>>

\* lines 400-461 raise (an event_date that strptime rejects): line 471.
ContextRaises(t) ==
    /\ qpc[t] = "events"
    /\ reply' = [reply EXCEPT ![t] = Fallback]
    /\ conversations_lock' = 0
    /\ qpc' = [qpc EXCEPT ![t] = "idle"]
    /\ UNCHANGED <<gemini_model, conversations, user_id, message_text, clock,
                   queries,
                   avars, rvars, fvars, wvars>>

\* lines 465-470: start_chat and send_message return; the turn is appended,
\* the text returned and the lock released.
AiReturns(t) ==
    /\ qpc[t] = "ai"
    /\ \E answer \in Answers :
          /\ conversations' =
                 [conversations EXCEPT ![user_id[t]].history =
                      AppendTurn(@, message_text[t], answer)]
          /\ reply' = [reply EXCEPT ![t] = answer]
    /\ conversations_lock' = 0
    /\ qpc' = [qpc EXCEPT ![t] = "idle"]
    /\ UNCHANGED <<gemini_model, user_id, message_text, clock, queries,
                   avars, rvars, fvars, wvars>>

\* lines 465-466, 471-473: the generative-AI call raises.
AiRaises(t) ==
    /\ qpc[t] = "ai"
    /\ conversations' =
           [conversations EXCEPT ![user_id[t]].history =
                HistoryOnError(@, message_text[t])]
    /\ reply' = [reply EXCEPT ![t] = Fallback]
    /\ conversations_lock' = 0
    /\ qpc' = [qpc EXCEPT ![t] = "idle"]
    /\ UNCHANGED <<gemini_model, user_id, message_text, clock, queries,
                   avars, rvars, fvars, wvars>>

NextChat ==
    \/ \E t \in Threads : QueryStart(t)
    \/ \E t \in Threads : LockAcquire(t)
    \/ \E t \in Threads : GetEvents(t)
    \/ \E t \in Threads : ContextRaises(t)
    \/ \E t \in Threads : AiReturns(t)
    \/ \E t \in Threads : AiRaises(t)

\* =================================================================
\* handle_rsvp_reply (lines 489-532), called by twilio_webhook (line 483).
\* It works on the rows of rsvp_contact_status: contact_status is the
\* column invite_status, rsvp_status the column status (the response).
\* =================================================================
Phones == 1..NumPhones

\* A WhatsApp address or phone column: the number, with or without the
\* 'whatsapp:' prefix.
PhoneStrings == [whatsapp : BOOLEAN, number : Phones]

\* line 492: from_number.replace('whatsapp:', '') if it starts with it
Normalize(f) == IF f.whatsapp THEN [f EXCEPT !.whatsapp = FALSE] ELSE f

\* Message bodies, as sequences of characters.
RsvpYes == <<"r", "s", "v", "p", ":", " ", "y", "e", "s">>
RsvpNo == <<"r", "s", "v", "p", ":", " ", "n", "o">>
RsvpShout == <<"R", "S", "V", "P", ":", "Y", "E", "S">>
RsvpMaybe == <<"r", "s", "v", "p", ":", " ", "m", "a", "y", "b", "e">>
RsvpBare == <<"R", "s", "v", "p", ":", " ">>
Bodies == {RsvpYes, RsvpNo, RsvpShout, RsvpMaybe, RsvpBare}

\* str.lower() on the characters that occur in the bodies and queries.
LowerChar(ch) ==
    CASE ch = "R" -> "r" [] ch = "S" -> "s" [] ch = "V" -> "v"
      [] ch = "P" -> "p" [] ch = "Y" -> "y" [] ch = "E" -> "e"
      [] ch = "N" -> "n" [] ch = "O" -> "o" [] ch = "M" -> "m"
      [] ch = "T" -> "t" [] ch = "H" -> "h" [] ch = "X" -> "x"
      [] OTHER -> ch

Lower(b) == [i \in 1..Len(b) |-> LowerChar(b[i])]

\* The word w occurs in s at index i.
StartsAt(s, i, w) ==
    /\ i + Len(w) - 1 <= Len(s)
    /\ SubSeq(s, i, i + Len(w) - 1) = w

\* \s* : the index after the whitespace that starts at j.
RECURSIVE SkipSpace(_, _)
SkipSpace(s, j) ==
    IF j <= Len(s) /\ s[j] \in {" ", "\t", "\n"} THEN SkipSpace(s, j + 1) ELSE j

\* Faulty variant of MatchAt: whatever follows 'rsvp:' is taken as a yes.
MatchAtMut(s, i) ==
    IF StartsAt(s, i, <<"r", "s", "v", "p", ":">>) THEN "yes" ELSE ""

\* The group (yes|no) of a match of rsvp:\s*(yes|no) that starts at i, ""
\* when there is none.
MatchAt(s, i) ==
    IF ~StartsAt(s, i, <<"r", "s", "v", "p", ":">>) THEN ""
    ELSE LET j == SkipSpace(s, i + 5)
         IN  IF StartsAt(s, j, <<"y", "e", "s">>) THEN "yes"
             ELSE IF StartsAt(s, j, <<"n", "o">>) THEN "no"
             ELSE ""

\* line 493: re.search(r"rsvp:\s*(yes|no)", body.lower()): the leftmost
\* match, "" for None.
Search(b) ==
    LET s == Lower(b)
        hits == {i \in 1..Len(s) : MatchAt(s, i) # ""}
    IN  IF hits = {} THEN ""
        ELSE MatchAt(s, CHOOSE i \in hits : \A k \in hits : i <= k)

\* lines 500-506: .eq('contact_phone', ...).eq('invite_status', 'sent')
SentRows(number) ==
    {c \in Contacts : contact_phone[c] = number /\ contact_status[c] = "sent"}

\* Faulty variant of LatestSent: the oldest row instead of the newest.
LatestSentMut(rows) == CHOOSE c \in rows : \A d \in rows : c <= d

\* lines 504-505, 509: .order('id', desc=True).limit(1), contacts[0]['id']
LatestSent(rows) == CHOOSE c \in rows : \A d \in rows : c >= d

\* The rows of rsvp_contact_status as earlier ticks of process_rsvp_messages
\* and earlier replies may have left them.
InitReply ==
    /\ contact_phone \in [Contacts -> PhoneStrings]
    /\ rsvp_status = [c \in Contacts |-> ""]
    /\ hpc = "idle"
    /\ from_number = [whatsapp |-> FALSE, number |-> 1]
    /\ body = <<>>
    /\ status_value = ""
    /\ contact_id = 0
    /\ resp = ""

\* The handler's locals once it has returned.
NoNumber == [whatsapp |-> FALSE, number |-> 1]

\* lines 489-498: the reply f, b is parsed; without a match the
\* clarification is returned before any data-store call.
ReplyArrivesWith(f, b) ==
    /\ hpc = "idle"
    /\ IF Search(b) = ""
       THEN /\ resp' = "clarify"
            /\ UNCHANGED <<hpc, from_number, body, status_value>>
       ELSE /\ from_number' = f
            /\ body' = b
            /\ status_value' = Search(b)
            /\ resp' = ""
            /\ hpc' = "query"
    /\ UNCHANGED <<contact_phone, rsvp_status, contact_id,
                   rvars, fvars, cvars>>

\* line 483: twilio_webhook hands a message that starts with 'rsvp:' to
\* handle_rsvp_reply.
ReplyArrives == \E f \in PhoneStrings, b \in Bodies : ReplyArrivesWith(f, b)

\* lines 500-509, 527-528: the query for the newest 'sent' row of the
\* number; without one the reply says so.
ReplyQuery ==
    /\ hpc = "query"
    /\ LET rows == SentRows(Normalize(from_number))
       IN  IF rows = {}
           THEN /\ resp' = "not_found"
                /\ hpc' = "idle"
                /\ from_number' = NoNumber
                /\ body' = <<>>
                /\ status_value' = ""
                /\ UNCHANGED contact_id
           ELSE /\ contact_id' = LatestSent(rows)
                /\ hpc' = "update"
                /\ UNCHANGED <<resp, from_number, body, status_value>>
    /\ UNCHANGED <<contact_phone, rsvp_status, rvars, fvars, cvars>>

\* lines 510-513: update({'status': status_value}).eq('id', contact_id)
ReplyUpdate ==
    /\ hpc = "update"
    /\ rsvp_status' = [rsvp_status EXCEPT ![contact_id] = status_value]
    /\ hpc' = "confirm"
    /\ UNCHANGED <<contact_phone, from_number, body, status_value, contact_id,
                   resp, rvars, fvars, cvars>>

\* lines 515-526, 532: the confirmation send, whose failure is only logged
\* (no row of notifications_sent is written for it either way), and the
\* response.
ReplyConfirm ==
    /\ hpc = "confirm"
    /\ resp' = "recorded"
    /\ hpc' = "idle"
    /\ from_number' = NoNumber
    /\ body' = <<>>
    /\ status_value' = ""
    /\ contact_id' = 0
    /\ UNCHANGED <<contact_phone, rsvp_status, rvars, fvars, cvars>>

NextReply ==
    \/ ReplyArrives
    \/ ReplyQuery
    \/ ReplyUpdate
    \/ ReplyConfirm

\* =================================================================
\* analyze_event_query (lines 359-379), a pure function of the message
\* text.  Texts are sequences of characters, so that `in` is the substring
\* test of the code.
\* =================================================================

\* `w in s` for two strings.
Contains(s, w) == \E i \in 1..Len(s) : StartsAt(s, i, w)

\* any(word in s for word in words), line 368
AnyIn(words, s) == \E k \in 1..Len(words) : Contains(s, words[k])

\* lines 361-364: the month names; the index is the month number, and the
\* dict is iterated in this order.
month_names == <<
    <<"j", "a", "n", "u", "a", "r", "y">>,
    <<"f", "e", "b", "r", "u", "a", "r", "y">>,
    <<"m", "a", "r", "c", "h">>,
    <<"a", "p", "r", "i", "l">>,
    <<"m", "a", "y">>,
    <<"j", "u", "n", "e">>,
    <<"j", "u", "l", "y">>,
    <<"a", "u", "g", "u", "s", "t">>,
    <<"s", "e", "p", "t", "e", "m", "b", "e", "r">>,
    <<"o", "c", "t", "o", "b", "e", "r">>,
    <<"n", "o", "v", "e", "m", "b", "e", "r">>,
    <<"d", "e", "c", "e", "m", "b", "e", "r">>
    >>

\* line 367: f'specific_month_{month_num}'
SpecificMonth == <<"specific_month_1", "specific_month_2", "specific_month_3",
                   "specific_month_4", "specific_month_5", "specific_month_6",
                   "specific_month_7", "specific_month_8", "specific_month_9",
                   "specific_month_10", "specific_month_11",
                   "specific_month_12">>

\* The keyword lists of lines 368, 370, 372, 374 and 376.
CurrentMonthWords == <<
    <<"t", "h", "i", "s", " ", "m", "o", "n", "t", "h">>,
    <<"c", "u", "r", "r", "e", "n", "t", " ", "m", "o", "n", "t", "h">>,
    <<"m", "o", "n", "t", "h">>
    >>

NextMonthWords == <<
    <<"n", "e", "x", "t", " ", "m", "o", "n", "t", "h">>,
    <<"f", "o", "l", "l", "o", "w", "i", "n", "g", " ", "m", "o", "n", "t", "h">>
    >>

CurrentWeekWords == <<
    <<"t", "h", "i", "s", " ", "w", "e", "e", "k">>,
    <<"c", "u", "r", "r", "e", "n", "t", " ", "w", "e", "e", "k">>,
    <<"w", "e", "e", "k">>
    >>

UpcomingWords == <<
    <<"u", "p", "c", "o", "m", "i", "n", "g">>,
    <<"f", "u", "t", "u", "r", "e">>,
    <<"c", "o", "m", "i", "n", "g">>,
    <<"a", "h", "e", "a", "d">>
    >>

AllWords == <<
    <<"a", "l", "l">>,
    <<"e", "v", "e", "r", "y", "t", "h", "i", "n", "g">>,
    <<"l", "i", "s", "t">>
    >>

\* lines 359-379
analyze_event_query(text) ==
    LET message_lower == Lower(text)
        named == {n \in 1..12 : Contains(message_lower, month_names[n])}
    IN  IF named # {}
        THEN SpecificMonth[CHOOSE n \in named : \A k \in named : n <= k]
        ELSE IF AnyIn(CurrentMonthWords, message_lower) THEN "current_month"
        ELSE IF AnyIn(NextMonthWords, message_lower) THEN "next_month"
        ELSE IF AnyIn(CurrentWeekWords, message_lower) THEN "current_week"
        ELSE IF AnyIn(UpcomingWords, message_lower) THEN "upcoming"
        ELSE IF AnyIn(AllWords, message_lower) THEN "all"
        ELSE "current_month"

\* The phrases the observed queries are made of.
Phrases == {
    <<"N", "e", "x", "t", " ", "M", "o", "n", "t", "h">>,
    <<"t", "h", "i", "s", " ", "m", "o", "n", "t", "h">>,
    <<"f", "o", "l", "l", "o", "w", "i", "n", "g", " ", "m", "o", "n", "t", "h">>,
    <<"t", "h", "i", "s", " ", "w", "e", "e", "k">>,
    <<"u", "p", "c", "o", "m", "i", "n", "g", " ", "e", "v", "e", "n", "t", "s">>,
    <<"e", "v", "e", "r", "y", "t", "h", "i", "n", "g">>,
    <<"e", "v", "e", "n", "t", "s", " ", "i", "n", " ", "m", "a", "r", "c", "h">>,
    <<"w", "h", "a", "t", " ", "i", "s", " ", "o", "n">>,
    <<"n", "e", "x", "t">>
    }

\* The phrases of ps, separated by blanks.
RECURSIVE Join(_)
Join(ps) ==
    IF Len(ps) = 1 THEN Head(ps) ELSE Head(ps) \o <<" ">> \o Join(Tail(ps))

\* Queries of one to MaxPhrases phrases.
QueryTexts ==
    {Join(ps) : ps \in UNION {[1..n -> Phrases] : n \in 1..MaxPhrases}}

InitIntent ==
    /\ query_text \in QueryTexts
    /\ query_type = ""

\* line 417: query_type = analyze_event_query(message_text)
AnalyzeEventQuery ==
    /\ query_type = ""
    /\ query_type' = analyze_event_query(query_text)
    /\ UNCHANGED <<query_text, gemini_model, conversations,
                   conversations_lock, qpc, user_id, message_text, reply,
                   clock, queries, rvars, fvars, wvars>>

NextIntent == AnalyzeEventQuery

\* ------------------------------------------------------- specifications
\* The tables and the threads of the part a specification leaves alone.
ReminderAtRest ==
    /\ day = 1
    /\ event_date = [e \in Events |-> MaxDay]
    /\ days_to_notify = [e \in Events |-> 0]
    /\ notified = [e \in Events |-> ""]
    /\ profile = "phone"
    /\ notifications_sent = EmptyBag
    /\ processing_events = {}
    /\ pc = [r \in Slots |-> "idle"]
    /\ today = [r \in Slots |-> 0]
    /\ to_expire = [r \in Slots |-> <<>>]
    /\ events_to_process = [r \in Slots |-> <<>>]
    /\ raised = [r \in Slots |-> FALSE]
    /\ notifications_failed = [r \in Slots |-> 0]
    /\ send_attempts = [e \in Events |-> 0]
    /\ yes_writes = [e \in Events |-> 0]

FanoutAtRest ==
    /\ kind = "none"
    /\ agg_status = [a \in Aggregates |-> ""]
    /\ parent = [c \in Contacts |-> 1]
    /\ contact_status = [c \in Contacts |-> ""]
    /\ tpc = "idle"
    /\ messages = <<>>
    /\ contacts = <<>>
    /\ all_sent = TRUE
    /\ attempts = [c \in Contacts |-> 0]
    /\ tick_pending = {}
    /\ ticked = FALSE
    /\ ticks = 0
    /\ sends = 0
    /\ failures = 0
    /\ tpc2 = "idle"
    /\ messages2 = <<>>
    /\ contacts2 = <<>>
    /\ all_sent2 = TRUE

ThreadsAtRest ==
    /\ gemini_model = "gemini-2.0-flash"
    /\ conversations = <<>>
    /\ conversations_lock = 0
    /\ qpc = [t \in Threads |-> "idle"]
    /\ user_id = [t \in Threads |-> 1]
    /\ message_text = [t \in Threads |-> "what is on this month"]
    /\ reply = [t \in Threads |-> ""]
    /\ clock = 0
    /\ queries = 0

ChatAtRest == ThreadsAtRest /\ IntentAtRest

ReplyAtRest ==
    /\ contact_phone = [c \in Contacts |-> [whatsapp |-> FALSE, number |-> 1]]
    /\ rsvp_status = [c \in Contacts |-> ""]
    /\ hpc = "idle"
    /\ from_number = [whatsapp |-> FALSE, number |-> 1]
    /\ body = <<>>
    /\ status_value = ""
    /\ contact_id = 0
    /\ resp = ""

Init == InitReminder /\ FanoutAtRest /\ ChatAtRest /\ ReplyAtRest

Next == NextReminder

\* The reminder check under every interleaving of NumRuns executions, every
\* data-store call succeeding.
Spec == Init /\ [][Next]_vars

\* The same with one more overlapping execution.
NextWide == Next \/ Start(NumRuns + 1)

SpecWide == Init /\ [][NextWide]_vars

\* The same as Spec with data-store calls that may fail.
NextFaults == Next \/ StoreFailure

SpecFaults == Init /\ [][NextFaults]_vars

\* The fan-out tick of one job, every data-store call succeeding and every
\* gateway send succeeding or failing.  APScheduler runs at most one
\* instance of a job at a time, so ticks of one job follow each other.
InitTick == ReminderAtRest /\ InitFanout /\ ChatAtRest /\ ReplyAtRest

SpecFanout == InitTick /\ [][NextFanout]_vars

\* The same where ticks keep firing and no contact's send fails for ever.
SpecFanoutFair ==
    /\ SpecFanout
    /\ WF_vars(TickStep)
    /\ \A c \in Contacts : WF_vars(SendOk(c) \/ SendFail(c))
    /\ \A c \in Contacts : SF_vars(SendOk(c))

\* One background job with data-store calls that may fail: one execution of
\* the reminder check, or the ticks of one fan-out job.  The jobs share no
\* variable, so a behaviour follows one of them (kind says which).
InitTicks ==
    /\ \/ InitReminder /\ FanoutAtRest
       \/ ReminderAtRest /\ InitFanout
    /\ ChatAtRest
    /\ ReplyAtRest

NextTicks ==
    \/ /\ kind = "none"
       /\ \/ NextDay
          \/ Start(1)
          \/ RunStep
          \/ StoreFailure
    \/ /\ kind # "none"
       /\ \/ NextFanout
          \/ FanoutStoreFailure

SpecTicks == InitTicks /\ [][NextTicks]_vars

\* Webhook threads inside get_gemini_response.
InitQueries == ReminderAtRest /\ FanoutAtRest /\ InitChat /\ ReplyAtRest

SpecChat == InitQueries /\ [][NextChat]_vars

\* The rows of rsvp and rsvp_contact_status when replies come in: some
\* invitations delivered by earlier ticks, others still pending.
InviteRows ==
    /\ kind = "rsvp"
    /\ agg_status = [a \in Aggregates |-> ""]
    /\ parent = [c \in Contacts |-> 1]
    /\ contact_status \in [Contacts -> {"", "sent"}]
    /\ tpc = "idle"
    /\ messages = <<>>
    /\ contacts = <<>>
    /\ all_sent = TRUE
    /\ attempts = [c \in Contacts |-> 0]
    /\ tick_pending = {}
    /\ ticked = FALSE
    /\ ticks = 0
    /\ sends = 0
    /\ failures = 0
    /\ tpc2 = "idle"
    /\ messages2 = <<>>
    /\ contacts2 = <<>>
    /\ all_sent2 = TRUE

InitReplies == ReminderAtRest /\ InviteRows /\ ChatAtRest /\ InitReply

\* handle_rsvp_reply serving one reply after another.
SpecReply == InitReplies /\ [][NextReply]_vars

\* The job process_rsvp_messages (line 567) ticking while the webhook
\* serves replies: the two run in different threads and meet in the rows
\* of rsvp_contact_status.  One invitation with all the contacts.
InitInvites ==
    /\ ReminderAtRest
    /\ InitFanout
    /\ kind = "rsvp"
    /\ parent = [c \in Contacts |-> 1]
    /\ ChatAtRest
    /\ InitReply

NextInvites ==
    \/ NextFanout
    \/ NextReply

SpecInvites == InitInvites /\ [][NextInvites]_vars

\* The ticks of one fan-out job in two processes, every data-store call
\* succeeding.
NextOverlap ==
    \/ NextFanout
    \/ NextFanout2

SpecOverlap == InitTick /\ [][NextOverlap]_vars

\* analyze_event_query applied to a query text.
InitQueryTexts ==
    /\ ReminderAtRest
    /\ FanoutAtRest
    /\ ThreadsAtRest
    /\ ReplyAtRest
    /\ InitIntent

SpecIntent == InitQueryTexts /\ [][NextIntent]_vars

\* =================================================================
\* Properties of the reminder check
\* =================================================================

\* Executions that have read the date.
Started == {r \in Slots : pc[r] # "idle"}

\* Rows of notifications_sent written for event e.
RecordsFor(e) ==
    CopiesIn(NotificationRecord(e, "sent"), notifications_sent)
    + CopiesIn(NotificationRecord(e, "failed"), notifications_sent)

\* check_and_send_notifications has run exactly twice on the notification
\* date of e (in sequence or overlapping), both runs are over, and no run
\* has read a later date.
RanTwiceOnDueDay(e) ==
    LET onDay == {r \in Started : today[r] = notification_date(e)}
    IN  /\ Cardinality(onDay) = 2
        /\ \A r \in onDay : pc[r] = "done"
        /\ \A r \in Started : today[r] <= notification_date(e)

C2_AtMostOnce ==
    \A e \in Events : send_attempts[e] <= 1 /\ yes_writes[e] <= 1

\* C3: notified is monotone: once "Yes" or "No", no step changes it.
C3_Monotone ==
    [][\A e \in Events :
          notified[e] \in {"Yes", "No"} => notified'[e] = notified[e]]_vars

\* C4: for a pending event whose notification date is strictly before
\* today, after a run of check_and_send_notifications (no run having read
\* an earlier date) notified is "No", no send was attempted for it and no
\* NotificationRecord was created for it.
C4_ExpiredMarkedNo ==
    \A e \in Events :
        (/\ \E r \in Started : pc[r] = "done"
         /\ \A r \in Started : today[r] > notification_date(e))
        => /\ notified[e] = "No"
           /\ send_attempts[e] = 0
           /\ RecordsFor(e) = 0

C4_Witness ==
    \E e \in Events :
        /\ Started = {1}
        /\ pc[1] = "done"
        /\ today[1] > notification_date(e)
        /\ notified[e] = "No"

\* No two runs are inside the guarded section for the same event id.
GuardMutex ==
    \A r1, r2 \in Slots :
        (r1 # r2 /\ InGuarded(r1) /\ InGuarded(r2))
            => event_id(r1) # event_id(r2)

\* A run's step at lines 150-156: it inserts the id and enters the guarded
\* section iff the id was absent; otherwise the set is unchanged and the
\* run goes on to its next candidate.
AcquireStep ==
    \A r \in Slots :
        (/\ pc[r] = "acquire"
         /\ <<pc[r], events_to_process[r]>>' # <<pc[r], events_to_process[r]>>)
        => IF event_id(r) \in processing_events
           THEN /\ processing_events' = processing_events
                /\ pc'[r] # "reread"
                /\ events_to_process'[r] = Tail(events_to_process[r])
           ELSE /\ processing_events' = processing_events \cup {event_id(r)}
                /\ pc'[r] = "reread"
                /\ events_to_process'[r] = events_to_process[r]

\* C9: of two runs trying to acquire the guard for one event id exactly one
\* inserts the id and proceeds, the other sees it present, leaves the set
\* unchanged and skips; never are two runs in the guarded section for the
\* same id.
C9_GuardMutualExclusion == []GuardMutex /\ [][AcquireStep]_vars

\* r1 holds the guard for an event that is still pending; r2, which ran on
\* the event's notification date, is over without having marked it: it
\* found the id in processing_events and skipped it.
C9_Witness ==
    \E r1, r2 \in Slots :
        /\ r1 # r2
        /\ InGuarded(r1)
        /\ notified[event_id(r1)] = ""
        /\ pc[r2] = "done"
        /\ today[r2] = notification_date(event_id(r1))

\* C10: an id is in processing_events exactly while some run is inside the
\* guarded section for it, whatever way the section is left (so the set is
\* empty when no run is active, and a run that did not acquire an id never
\* removes it).
C10_GuardHeldOnlyInside ==
    processing_events = {event_id(r) : r \in {q \in Slots : InGuarded(q)}}

C10_Witness ==
    /\ processing_events = {}
    /\ \E r \in Slots : pc[r] = "done" /\ raised[r]
    /\ \A r \in Slots : pc[r] \in {"idle", "done"}

\* =================================================================
\* Properties of the fan-out ticks
\* =================================================================

AllContactsSent(a) == \A c \in ContactsOf(a) : contact_status[c] = "sent"

HandledBefore(c, d) ==
    \/ parent[c] < parent[d]
    \/ parent[c] = parent[d] /\ c < d

\* C7: in one tick every contact that was pending (under a pending
\* aggregate) when the tick fetched gets exactly one send attempt, whatever
\* sends fail in that tick; no other contact gets one.
C7_EveryPendingContactAttempted ==
    /\ \A c \in Contacts : attempts[c] <= 1
    /\ (tpc = "idle" /\ ticked) =>
          \A c \in Contacts :
              attempts[c] = IF c \in tick_pending THEN 1 ELSE 0

\* A tick in which the send to c failed and d, handled after c, was
\* attempted all the same.
C7_Witness ==
    /\ tpc = "idle"
    /\ \E c, d \in tick_pending :
          /\ HandledBefore(c, d)
          /\ contact_status[c] = ""
          /\ attempts[c] = 1
          /\ attempts[d] = 1

\* One step's change of the status of contact row c.
ContactTransition(c) ==
    \/ contact_status'[c] = contact_status[c]
    \/ contact_status[c] = "" /\ contact_status'[c] = "processing"
    \/ /\ contact_status[c] = "processing"
       /\ contact_status'[c] = "sent"
       /\ tpc = "mark_sent"
    \/ /\ contact_status[c] = "processing"
       /\ contact_status'[c] = ""
       /\ tpc = "revert"

InExternalCall(t) == qpc[t] \in {"events", "ai"}

\* C11: no mutex is held across an external call.  processing_lock is held
\* only inside the steps Acquire and Release, which make no call; so the
\* claim is that the holder of conversations_lock is never inside a
\* data-store read or a generative-AI call, and that no other user's query
\* waits for the lock while the holder is inside the AI call.
C11_NoLockAcrossExternalCall ==
    /\ \A t \in Threads : conversations_lock = t => ~InExternalCall(t)
    /\ \A t, w \in Threads :
          (qpc[t] = "ai" /\ user_id[w] # user_id[t]) => qpc[w] # "lock"

\* =================================================================
\* Properties of the RSVP reply handler
\* =================================================================

\* The value a well-formed reply asks to record.
Replied(b) == IF b = RsvpYes THEN "yes" ELSE "no"

\* C12: for a reply 'rsvp: yes' or 'rsvp: no' from a number that has rows
\* with invite_status "sent", the handler's write sets the response of the
\* row with the greatest id among them to the replied value and changes no
\* other row and no other column.
C12_ReplyUpdatesLatestRow ==
    [][(hpc = "update" /\ hpc' # "update" /\ body \in {RsvpYes, RsvpNo}) =>
          LET rows == {c \in Contacts :
                          /\ contact_phone[c] = Normalize(from_number)
                          /\ contact_status[c] = "sent"}
          IN  \E top \in rows :
                  /\ \A c \in rows : c <= top
                  /\ rsvp_status' = [rsvp_status EXCEPT ![top] = Replied(body)]
                  /\ UNCHANGED <<contact_phone, contact_status>>]_vars

\* 'rsvp: no' has been recorded on the newer of two delivered invitations
\* of one number; the older one is left without a response.
C12_Witness ==
    /\ hpc = "confirm"
    /\ body = RsvpNo
    /\ \E c, d \in Contacts :
          /\ c < d
          /\ contact_phone[c] = Normalize(from_number)
          /\ contact_phone[d] = Normalize(from_number)
          /\ contact_status[c] = "sent"
          /\ contact_status[d] = "sent"
          /\ rsvp_status[d] = "no"
          /\ rsvp_status[c] = ""

\* =================================================================
\* Properties of the dispatch paths taken together
\* =================================================================

\* C13: every gateway send attempt, of the reminder check (send_attempts)
\* or of a fan-out tick (attempts), appends exactly one row to
\* notifications_sent, and no row of it is ever changed or removed.
C13_EveryAttemptLogged ==
    [][/\ notifications_sent \sqsubseteq notifications_sent'
       /\ \A e \in Events :
             send_attempts'[e] > send_attempts[e] =>
                 RecordsFor(e)' = RecordsFor(e) + 1
       /\ \A c \in Contacts :
             attempts'[c] > attempts[c] =>
                 BagCardinality(notifications_sent') =
                     BagCardinality(notifications_sent) + 1]_vars

\* C14: an item whose gateway send failed is pending again once its
\* handling is over, so that a later tick retries it: a contact row that was
\* attempted in the last tick and is not "sent" is pending, and an event
\* for which only failed sends are recorded is pending.
C14_FailedSendReturnsToPending ==
    /\ tpc = "idle" =>
          \A c \in Contacts :
              (attempts[c] > 0 /\ contact_status[c] # "sent") =>
                  contact_status[c] = ""
    /\ \A e \in Events :
          (/\ CopiesIn(NotificationRecord(e, "failed"), notifications_sent) > 0
           /\ CopiesIn(NotificationRecord(e, "sent"), notifications_sent) = 0
           /\ \A r \in Slots : InGuarded(r) => event_id(r) # e)
          => notified[e] = ""

\* =================================================================
\* Properties of the background ticks under data-store failures
\* =================================================================

\* C15: a data-store error met while a tick handles one record skips that
\* record only.  (1) An execution of the reminder check ends only when none
\* of the rows it fetched is left unhandled, and (2) so does a fan-out
\* tick; (3) the record whose handling met the error is left pending in
\* the store, for the next tick.
C15_OnlyFailedRecordSkipped ==
    [][/\ \A r \in Slots :
             (pc[r] \notin {"idle", "done"} /\ pc'[r] = "done") =>
                 /\ Len(to_expire[r]) <= 1
                 /\ Len(events_to_process[r]) <= 1
       /\ (tpc # "idle" /\ tpc' = "idle") =>
             /\ Len(messages) <= 1
             /\ Len(contacts) <= 1
       /\ \A r \in Slots :
             (RereadRaises(r) \/ MarkRaises(r)) =>
                 notified'[event_id(r)] = ""
       /\ (MarkProcessingRaises \/ MarkSentRaises \/ RevertRaises) =>
             contact_status'[Head(contacts)] \in {"", "processing"}
       /\ RevertRaises => contact_status'[Head(contacts)] = ""]_vars

\* C16: no background tick ends with an exception, whatever data-store or
\* gateway call fails in it: every execution of the reminder check is at
\* one of its own positions or has returned, and the fan-out job is inside
\* a tick or ready for its next one.
C16_TicksNeverCrash ==
    /\ \A r \in Slots :
          pc[r] \in {"idle", "fetch", "scan", "acquire", "reread", "mark",
                     "profile", "send", "release", "done"}
    /\ tpc \in {"idle", "contacts", "processing", "send", "mark_sent",
                "revert", "rollup"}

\* A tick has ended, the job is ready for the next one, and a contact row
\* is still 'processing': the status write of the failure handler (lines
\* 316 / 259) itself raised.
C16_Witness ==
    /\ tpc = "idle"
    /\ ticked
    /\ \E c \in Contacts : contact_status[c] = "processing"

\* =================================================================
\* Retries of the fan-out under sequential ticks (every data-store call
\* succeeding)
\* =================================================================

\* Contact rows that are "sent".
SentContacts == {c \in Contacts : contact_status[c] = "sent"}

Apologies ==
    {"I'm sorry, the AI service is currently unavailable. Please try again later.",
     "I'm sorry, I couldn't process your request at the moment. Please try again."}

\* C18: a call of get_gemini_response that finds no model, or whose
\* generative-AI call raises, returns one of the two fixed apology strings
\* (it does return: the thread is at rest again, the lock free) and leaves
\* every user's history as it was.  (1) Without a model the call returns
\* an apology at once and touches nothing; (2) a call that comes back from
\* the AI either returns an apology and changes no history, or returns the
\* answer and appends the turn; (3) a history never changes in any other
\* way, so it is the same when the apology is returned as when the query
\* came in.
C18_ErrorLeavesHistory ==
    [][/\ (gemini_model = "none" /\ queries' # queries) =>
             /\ \E t \in Threads : reply'[t] \in Apologies
             /\ UNCHANGED <<qpc, conversations, conversations_lock>>
       /\ \A t \in Threads :
             (qpc[t] = "ai" /\ qpc'[t] # "ai") =>
                 /\ qpc'[t] = "idle"
                 /\ conversations_lock' = 0
                 /\ \/ /\ reply'[t] \in Apologies
                       /\ \A u \in Users : History(u)' = History(u)
                    \/ /\ reply'[t] \in Answers
                       /\ History(user_id[t])' =
                              History(user_id[t]) \o
                              <<[role |-> "user", parts |-> <<message_text[t]>>],
                                [role |-> "model", parts |-> <<reply'[t]>>]>>
       /\ \A u \in Users :
             History(u)' # History(u) =>
                 \E t \in Threads : /\ qpc[t] = "ai"
                                    /\ user_id[t] = u
                                    /\ reply'[t] \in Answers]_vars

\* A user with a history of one turn has asked again and the AI call has
\* raised: the apology was returned and the history still is that one turn.
C18_Witness ==
    \E t \in Threads :
        /\ qpc[t] = "idle"
        /\ reply[t] =
             "I'm sorry, I couldn't process your request at the moment. Please try again."
        /\ conversations_lock = 0
        /\ user_id[t] \in DOMAIN conversations
        /\ Len(conversations[user_id[t]].history) = 2
        /\ conversations[user_id[t]].last_message_time = 2

\* =================================================================
\* Order of the steps of the guarded section
\* =================================================================

\* C19: mark before send.  (1) A run moves on to the profile lookup of its
\* event only by its own write of notified = "Yes", confirmed by the store;
\* (2) it reaches the send only from that lookup, for the same event;
\* (3) a send attempt or a NotificationRecord for an event is only made by
\* a run at its send for that event; (4) a run whose write was not
\* confirmed goes straight to the release of the guard.
C19_MarkBeforeSend ==
    [][/\ \A r \in Slots :
             /\ (pc[r] # "profile" /\ pc'[r] = "profile") =>
                    /\ pc[r] = "mark"
                    /\ notified'[event_id(r)] = "Yes"
                    /\ yes_writes'[event_id(r)] = yes_writes[event_id(r)] + 1
                    /\ events_to_process'[r] = events_to_process[r]
             /\ (pc[r] # "send" /\ pc'[r] = "send") =>
                    /\ pc[r] = "profile"
                    /\ events_to_process'[r] = events_to_process[r]
             /\ (/\ pc[r] = "mark"
                 /\ pc'[r] # "mark"
                 /\ yes_writes'[event_id(r)] = yes_writes[event_id(r)]) =>
                    /\ pc'[r] = "release"
                    /\ events_to_process'[r] = events_to_process[r]
       /\ \A e \in Events :
             (\/ send_attempts'[e] # send_attempts[e]
              \/ RecordsFor(e)' # RecordsFor(e)) =>
                 \E r \in Slots : /\ pc[r] = "send"
                                  /\ event_id(r) = e
                                  /\ pc'[r] = "release"]_vars

\* The only run so far is about to release the guard of an event that is
\* still pending and was never written: its update was not confirmed, and
\* nothing was sent or recorded for the event.
C19_Witness ==
    \E r \in Slots :
        /\ Started = {r}
        /\ pc[r] = "release"
        /\ ~raised[r]
        /\ notified[event_id(r)] = ""
        /\ yes_writes[event_id(r)] = 0
        /\ send_attempts[event_id(r)] = 0
        /\ RecordsFor(event_id(r)) = 0

\* C20: double check after the guard is acquired: a run whose re-read finds
\* notified no longer pending ("Yes" or "No") goes straight to the release
\* of the guard, so it writes nothing to the event and sends nothing.
C20_SkipWhenNoLongerPending ==
    [][\A r \in Slots :
          (/\ pc[r] = "reread"
           /\ pc'[r] # "reread"
           /\ notified[event_id(r)] \in {"Yes", "No"}) =>
              /\ pc'[r] = "release"
              /\ notified' = notified]_vars

\* =================================================================
\* The roll-up of an aggregate and the rows left in 'processing'
\* =================================================================

\* C21: whenever a fan-out tick writes 'sent' to an aggregate, every contact
\* row of that aggregate is 'sent' at the moment of the write, the rows the
\* tick did not fetch included.
C21_RollUpSeesAllRows ==
    [][\A a \in Aggregates :
          (agg_status[a] # "sent" /\ agg_status'[a] = "sent") =>
              \A c \in ContactsOf(a) : contact_status[c] = "sent"]_vars

\* C24: between ticks no contact row is 'processing': whichever way a
\* per-contact step ends (send success, send failure, failure of a status
\* write), the row is left pending or 'sent'.
C24_NoProcessingBetweenTicks ==
    tpc = "idle" => \A c \in Contacts : contact_status[c] # "processing"

\* =================================================================
\* The reminder check and a recipient without phone number
\* =================================================================

NotAnAnswer == {RsvpMaybe, RsvpBare}

\* C26: a reply whose body does not match rsvp:\s*(yes|no), whatever its
\* case, gets the clarification and changes nothing: the handler returns
\* at once, so it makes no query, no update and no confirmation send, and
\* every contact row is as before.
C26_NoMatchClarifies ==
    [][\A f \in PhoneStrings, b \in NotAnAnswer :
          ReplyArrivesWith(f, b) =>
              /\ resp' = "clarify"
              /\ hpc' = "idle"
              /\ UNCHANGED <<contact_phone, contact_status, rsvp_status,
                             contact_id, status_value, sends>>]_vars

\* The clarification has been returned although an invitation delivered
\* to the sender is waiting for its answer.
C26_Witness ==
    /\ resp = "clarify"
    /\ hpc = "idle"
    /\ \E c \in Contacts : contact_status[c] = "sent" /\ rsvp_status[c] = ""

\* =================================================================
\* Replies that arrive while invitations are being sent
\* =================================================================

\* The gateway has accepted the invitation for contact c: the row is
\* 'sent', or the send of the current tick has returned (line 254) and
\* the write of 'sent' (lines 255-256) is still to come.
Delivered(c) ==
    \/ contact_status[c] = "sent"
    \/ tpc = "mark_sent" /\ Head(contacts) = c

\* C25: a well-formed reply from a number to which an invitation has been
\* delivered is recorded: whenever the handler's query runs for such a
\* number, the answer is not 'could not find your RSVP invitation'.
C25_DeliveredReplyRecorded ==
    [][(/\ hpc = "query"
        /\ hpc' # "query"
        /\ \E c \in Contacts :
              Delivered(c) /\ contact_phone[c] = Normalize(from_number))
       => resp' # "not_found"]_vars

\* =================================================================
\* Overlapping executions of one fan-out tick
\* =================================================================

\* The second execution's send for contact c has returned and its write of
\* 'sent' is still to come.
Delivered2(c) == tpc2 = "mark_sent" /\ Head(contacts2) = c

\* C22: two executions of the same fan-out tick function that interleave
\* on an aggregate are safe: no contact gets a second successful gateway
\* send (a send never succeeds for a contact whose invitation or message
\* the gateway has already accepted), and a contact row that is 'sent' is
\* not written back to 'processing' or pending.
C22_OverlapSafe ==
    [][\A c \in Contacts :
          /\ SendOk(c) => ~(contact_status[c] = "sent" \/ Delivered2(c))
          /\ SendOk2(c) => ~Delivered(c)
          /\ contact_status[c] = "sent" => contact_status'[c] = "sent"]_vars

\* =================================================================
\* The precedence of the intent rules
\* =================================================================

\* C27: for a query without month name the classification follows the
\* listed precedence: with 'this month' or 'current month' in it, it is
\* current_month; otherwise, with 'next month' in it, it is next_month;
\* otherwise, with 'this week' in it, it is current_week.
C27_IntentPrecedence ==
    LET q == Lower(query_text)
        this_month == \/ Contains(q, CurrentMonthWords[1])
                      \/ Contains(q, CurrentMonthWords[2])
        next_month == Contains(q, NextMonthWords[1])
        this_week == Contains(q, CurrentWeekWords[1])
    IN  (query_type # "" /\ ~AnyIn(month_names, q)) =>
            /\ this_month => query_type = "current_month"
            /\ (~this_month /\ next_month) => query_type = "next_month"
            /\ (~this_month /\ ~next_month /\ this_week) =>
                   query_type = "current_week"

====
